---- MODULE Spec2Model ----
(***************************************************************************)
(* Model of the SAML metadata subsystem of insaplace/saml:                 *)
(*   - ParseMetadata / ParseEntitiesMetadata (dual-shape metadata parser), *)
(*   - fetchMetadata and its three public instantiations,                  *)
(*   - ServiceMultipleProvider.Metadata (metadata composition),            *)
(*   - ServiceMultipleProvider.MakeWayfRedirectionRequest.                 *)
(* Source: src/samlsp/fetch_metadata.go.                                   *)
(***************************************************************************)
EXTENDS Integers, Sequences, FiniteSets, TLC

VARIABLES
    \* --- parser and fetcher ---
    entry,      \* the entry point that was called
    pc,         \* position of the call
    data,       \* the bytes handed to the parse operation (a document)
    resp,       \* the HTTP response of httpClient.Do, or NoResp
    err,        \* local `err` of the parse operation (primary decode)
    entity,     \* local `entity`   (*saml.EntityDescriptor)
    entities,   \* local `entities` (*saml.EntitiesDescriptor)
    ret,        \* the (value, error) pair the call returned
    steps,      \* history: validation / decode steps performed, in order
    bodyReads,  \* history: number of io.ReadAll(resp.Body) calls
    closes,     \* history: number of resp.Body.Close() calls
    logged,     \* history: number of lines written to logger.DefaultLogger
    \* --- ServiceMultipleProvider.Metadata ---
    smp,        \* the ServiceMultipleProvider (its fields are never assigned)
    heap,       \* the memory that holds the certificates' Raw bytes
    now,        \* the value TimeNow() returns
    callers,    \* the goroutines that call smp.Metadata()
    mpc,        \* position of each caller
    certBytes,  \* local `certBytes` of each caller (a slice)
    idx,        \* position of each caller in `range smp.Intermediates`
    out,        \* the *EntityDescriptor each caller got back
    heapWrites, \* history: number of stores into `heap`
    \* --- ServiceMultipleProvider.MakeWayfRedirectionRequest ---
    wpc,        \* position of the call
    relayState, \* argument relayState
    returnUrl,  \* argument returnUrl
    u,          \* local `u`, the parsed return URL
    wret        \* the (URL, error) pair the call returned

fetchVars == <<entry, pc, data, resp, err, entity, entities, ret, steps, bodyReads, closes, logged>>
metaVars == <<smp, heap, now, callers, mpc, certBytes, idx, out, heapWrites>>
wayfVars == <<wpc, relayState, returnUrl, u, wret>>
vars == <<fetchVars, metaVars, wayfVars>>

----------------------------------------------------------------------------
(* Bounds *)

MaxEntities == 3    \* longest entity list of an EntitiesDescriptor document
MaxIDPs == 1        \* most IDPSSODescriptor children of one entity

----------------------------------------------------------------------------
(* Values *)

NoErr == "<nil>"                         \* a nil error
NilVal == [kind |-> "nil"]               \* a nil pointer result
NoResp == [kind |-> "nil"]
NoData == [kind |-> "nil"]
NoRet == [val |-> NilVal, err |-> "<not returned>"]

\* &saml.EntityDescriptor{} and &saml.EntitiesDescriptor{}
ZeroEntity == [kind |-> "EntityDescriptor", EntityID |-> "", IDPSSODescriptors |-> <<>>]
ZeroEntities == [kind |-> "EntitiesDescriptor", Name |-> <<>>, EntityDescriptors |-> <<>>]

\* The i-th entity of a document, with n IDP role descriptors.
MkEntity(i, n) ==
    [kind |-> "EntityDescriptor",
     EntityID |-> "urn:e" \o ToString(i),
     IDPSSODescriptors |-> [k \in 1..n |-> "IDPSSODescriptor"]]

EntityLists ==
    UNION {{[i \in 1..k |-> MkEntity(i, f[i])] : f \in [1..k -> 0..MaxIDPs]} : k \in 0..MaxEntities}

\* What can be wrong with the content of a document whose root element has
\* the expected local name: nothing, the root's name space, or a value that
\* the target struct cannot take (e.g. a malformed validUntil).
Faults == {"none", "namespace", "content"}

\* A document: wf is the verdict of the round-trip validator; root is the
\* local name of the root element (EntityDescriptor, EntitiesDescriptor, or
\* anything else); name is the Name attribute of an
\* EntitiesDescriptor; ents are the entities it holds.  A document the
\* validator rejects is never decoded: short entity lists stand for all.
Documents ==
    {[kind |-> "document", wf |-> w, root |-> "EntityDescriptor", fault |-> f, name |-> <<>>, ents |-> <<MkEntity(1, n)>>] :
        w \in BOOLEAN, f \in Faults, n \in 0..MaxIDPs}
    \cup
    {[kind |-> "document", wf |-> TRUE, root |-> "EntitiesDescriptor", fault |-> f, name |-> nm, ents |-> es] :
        f \in Faults, nm \in {<<>>, <<"https://wayf.example/ds">>}, es \in EntityLists}
    \cup
    {[kind |-> "document", wf |-> FALSE, root |-> "EntitiesDescriptor", fault |-> f, name |-> nm, ents |-> es] :
        f \in Faults, nm \in {<<>>, <<"https://wayf.example/ds">>},
        es \in {l \in EntityLists : Len(l) <= 1}}
    \cup
    {[kind |-> "document", wf |-> w, root |-> "Other", fault |-> "none", name |-> <<>>, ents |-> <<>>] :
        w \in BOOLEAN}

----------------------------------------------------------------------------
(* xrv.Validate and xml.Unmarshal as the parser uses them *)

\* xrv.Validate(bytes.NewBuffer(data))
Validate(d) == IF d.wf THEN NoErr ELSE "validator: unexpected token"

\* The error encoding/xml builds when the root element's local name is not
\* the one the target struct declares.
MismatchError(expected, have) ==
    "expected element type <" \o expected \o "> but have <" \o have \o ">"

MetadataNS == "urn:oasis:names:tc:SAML:2.0:metadata"

\* xml.Unmarshal(data, target): the error returned.  The local name of the
\* root is compared first, then its name space, then the content is decoded.
UnmarshalErr(d, target) ==
    IF d.root # target THEN MismatchError(target, d.root)
    ELSE IF d.fault = "namespace"
         THEN "expected element <" \o target \o "> in name space " \o MetadataNS \o " but have no name space"
    ELSE IF d.fault = "content" THEN "parsing time: cannot parse validUntil"
    ELSE NoErr

\* xml.Unmarshal(data, entity): the struct after the call.  A root mismatch
\* leaves it as it was, zero; after any other error the callers drop it.
UnmarshalEntity(d) ==
    IF UnmarshalErr(d, "EntityDescriptor") = NoErr THEN d.ents[1] ELSE ZeroEntity

\* xml.Unmarshal(data, entities): the struct after the call, likewise.
UnmarshalEntities(d) ==
    IF UnmarshalErr(d, "EntitiesDescriptor") = NoErr
    THEN [kind |-> "EntitiesDescriptor", Name |-> d.name, EntityDescriptors |-> d.ents]
    ELSE ZeroEntities

----------------------------------------------------------------------------
(* Entry points *)

Entries == {"ParseMetadata", "ParseEntitiesMetadata",
            "FetchMetadata", "FetchEntityMetatada", "FetchEntitiesMetadata"}

IsFetch(e) == e \in {"FetchMetadata", "FetchEntityMetatada", "FetchEntitiesMetadata"}

\* The parse operation f an entry point runs: FetchMetadata and
\* FetchEntityMetatada pass ParseMetadata, FetchEntitiesMetadata passes
\* ParseEntitiesMetadata.
Parser(e) ==
    IF e \in {"ParseMetadata", "FetchMetadata", "FetchEntityMetatada"}
    THEN "ParseMetadata"
    ELSE "ParseEntitiesMetadata"

\* Where control goes when the parse operation returns: to the caller of a
\* direct call, or into fetchMetadata's deferred function.
AfterParse(e) == IF IsFetch(e) THEN "close" ELSE "done"

----------------------------------------------------------------------------
(* ParseMetadata *)

\* Mutant of IsEntitiesNotEntity: the fallback is taken on any decode error.
IsEntitiesNotEntity_AnyError(e) == e # NoErr

\* err != nil && err.Error() == "expected element type <EntityDescriptor> but have <EntitiesDescriptor>"
IsEntitiesNotEntity(e) ==
    e # NoErr /\ e = "expected element type <EntityDescriptor> but have <EntitiesDescriptor>"

\* for i, e := range entities.EntityDescriptors { if len(e.IDPSSODescriptors) > 0 {...} }
\* The index of the entity the loop returns, 0 when it falls through.
RECURSIVE ScanFrom(_, _)
ScanFrom(es, i) ==
    IF i > Len(es) THEN 0
    ELSE IF Len(es[i].IDPSSODescriptors) > 0 THEN i
    ELSE ScanFrom(es, i + 1)

\* Mutant of FirstIDPIndex: the scan keeps the last match instead of
\* returning at the first one.
RECURSIVE ScanLast(_, _, _)
ScanLast(es, i, found) ==
    IF i > Len(es) THEN found
    ELSE ScanLast(es, i + 1, IF Len(es[i].IDPSSODescriptors) > 0 THEN i ELSE found)

FirstIDPIndex_LastMatch(es) == ScanLast(es, 1, 0)

FirstIDPIndex(es) == ScanFrom(es, 1)

\* The result of the fallback branch once entities is decoded.
SelectIDPEntity(es) ==
    LET i == FirstIDPIndex(es) IN
    IF i > 0
    THEN [val |-> es[i], err |-> NoErr]
    ELSE [val |-> NilVal, err |-> "no entity found with IDPSSODescriptor"]

ParseMetadata_Validate ==
    /\ pc = "validate"
    /\ Parser(entry) = "ParseMetadata"
    /\ entity' = ZeroEntity
    /\ steps' = Append(steps, "validate")
    /\ IF Validate(data) # NoErr
       THEN /\ ret' = [val |-> NilVal, err |-> Validate(data)]
            /\ pc' = AfterParse(entry)
       ELSE /\ ret' = ret
            /\ pc' = "primary"
    /\ UNCHANGED <<metaVars, wayfVars, entry, data, resp, err, entities, bodyReads, closes, logged>>

ParseMetadata_Unmarshal ==
    /\ pc = "primary"
    /\ Parser(entry) = "ParseMetadata"
    /\ err' = UnmarshalErr(data, "EntityDescriptor")
    /\ entity' = UnmarshalEntity(data)
    /\ steps' = Append(steps, "primary")
    /\ pc' = "branch"
    /\ UNCHANGED <<metaVars, wayfVars, entry, data, resp, entities, ret, bodyReads, closes, logged>>

ParseMetadata_Fallback ==
    /\ pc = "branch"
    /\ Parser(entry) = "ParseMetadata"
    /\ IsEntitiesNotEntity(err)
    /\ entities' = UnmarshalEntities(data)
    /\ steps' = Append(steps, "fallback")
    /\ ret' = IF UnmarshalErr(data, "EntitiesDescriptor") # NoErr
              THEN [val |-> NilVal, err |-> UnmarshalErr(data, "EntitiesDescriptor")]
              ELSE SelectIDPEntity(entities'.EntityDescriptors)
    /\ pc' = AfterParse(entry)
    /\ UNCHANGED <<metaVars, wayfVars, entry, data, resp, err, entity, bodyReads, closes, logged>>

ParseMetadata_Return ==
    /\ pc = "branch"
    /\ Parser(entry) = "ParseMetadata"
    /\ ~IsEntitiesNotEntity(err)
    /\ ret' = IF err # NoErr
              THEN [val |-> NilVal, err |-> err]
              ELSE [val |-> entity, err |-> NoErr]
    /\ pc' = AfterParse(entry)
    /\ UNCHANGED <<metaVars, wayfVars, entry, data, resp, err, entity, entities, steps, bodyReads, closes, logged>>

----------------------------------------------------------------------------
(* ParseEntitiesMetadata *)

\* err != nil && err.Error() == "expected element type <EntitiesDescriptor> but have <EntityDescriptor>"
IsEntityNotEntities(e) ==
    e # NoErr /\ e = "expected element type <EntitiesDescriptor> but have <EntityDescriptor>"

\* Mutant of WrapEntity: the decoded entity is never stored in the list.
WrapEntity_NotStored(es, e) == es

\* entities.EntityDescriptors = []saml.EntityDescriptor{*entity}
WrapEntity(es, e) == [es EXCEPT !.EntityDescriptors = <<e>>]

ParseEntitiesMetadata_Validate ==
    /\ pc = "validate"
    /\ Parser(entry) = "ParseEntitiesMetadata"
    /\ entities' = ZeroEntities
    /\ steps' = Append(steps, "validate")
    /\ IF Validate(data) # NoErr
       THEN /\ ret' = [val |-> NilVal, err |-> Validate(data)]
            /\ pc' = AfterParse(entry)
       ELSE /\ ret' = ret
            /\ pc' = "primary"
    /\ UNCHANGED <<metaVars, wayfVars, entry, data, resp, err, entity, bodyReads, closes, logged>>

ParseEntitiesMetadata_Unmarshal ==
    /\ pc = "primary"
    /\ Parser(entry) = "ParseEntitiesMetadata"
    /\ err' = UnmarshalErr(data, "EntitiesDescriptor")
    /\ entities' = UnmarshalEntities(data)
    /\ steps' = Append(steps, "primary")
    /\ pc' = "branch"
    /\ UNCHANGED <<metaVars, wayfVars, entry, data, resp, entity, ret, bodyReads, closes, logged>>

ParseEntitiesMetadata_Fallback ==
    /\ pc = "branch"
    /\ Parser(entry) = "ParseEntitiesMetadata"
    /\ IsEntityNotEntities(err)
    /\ entity' = UnmarshalEntity(data)
    /\ steps' = Append(steps, "fallback")
    /\ IF UnmarshalErr(data, "EntityDescriptor") # NoErr
       THEN /\ ret' = [val |-> NilVal, err |-> UnmarshalErr(data, "EntityDescriptor")]
            /\ entities' = entities
       ELSE /\ entities' = WrapEntity(entities, entity')
            /\ ret' = [val |-> entities', err |-> NoErr]
    /\ pc' = AfterParse(entry)
    /\ UNCHANGED <<metaVars, wayfVars, entry, data, resp, err, bodyReads, closes, logged>>

ParseEntitiesMetadata_Return ==
    /\ pc = "branch"
    /\ Parser(entry) = "ParseEntitiesMetadata"
    /\ ~IsEntityNotEntities(err)
    /\ ret' = IF err # NoErr
              THEN [val |-> NilVal, err |-> err]
              ELSE [val |-> entities, err |-> NoErr]
    /\ pc' = AfterParse(entry)
    /\ UNCHANGED <<metaVars, wayfVars, entry, data, resp, err, entity, entities, steps, bodyReads, closes, logged>>

----------------------------------------------------------------------------
(* fetchMetadata *)

StatusCodes == {200, 302, 399, 400, 404, 500}

\* Mutant of StatusIsError: the comparison is strict.
StatusIsError_Strict(s) == s > 400

\* resp.StatusCode >= 400
StatusIsError(s) == s >= 400

StatusError(s) == "failed to fetch metadata: unexpected status code " \o ToString(s)

\* Mutant of ResultAfterClose: a failed Close replaces the call's result.
ResultAfterClose_Overrides(r, closeErr) ==
    IF closeErr THEN [val |-> NilVal, err |-> "close failed"] ELSE r

\* The deferred function: it closes the body and only logs a failure, so
\* the call's result is the one computed before it ran.
ResultAfterClose(r, closeErr) == r

\* http.NewRequest("GET", metadataURL.String(), nil)
Fetch_NewRequest ==
    /\ pc = "newreq"
    /\ IsFetch(entry)
    /\ \E ok \in BOOLEAN :
          IF ok
          THEN pc' = "do" /\ ret' = ret
          ELSE pc' = "done" /\ ret' = [val |-> NilVal, err |-> "net/http: invalid request"]
    /\ UNCHANGED <<metaVars, wayfVars, entry, data, resp, err, entity, entities, steps, bodyReads, closes, logged>>

\* resp, err := httpClient.Do(req): a transport failure (no response), or a
\* response whose status, body and body behaviour the server and the
\* network decide.
Fetch_Do ==
    /\ pc = "do"
    /\ \/ /\ ret' = [val |-> NilVal, err |-> "Get: context canceled"]
          /\ pc' = "done"
          /\ resp' = resp
       \/ /\ \E s \in StatusCodes, d \in Documents, re \in BOOLEAN, ce \in BOOLEAN :
                resp' = [kind |-> "response", StatusCode |-> s, body |-> d,
                         readErr |-> re, closeErr |-> ce]
          /\ pc' = "status"
          /\ ret' = ret
    /\ UNCHANGED <<metaVars, wayfVars, entry, data, err, entity, entities, steps, bodyReads, closes, logged>>

Fetch_CheckStatus ==
    /\ pc = "status"
    /\ IF StatusIsError(resp.StatusCode)
       THEN /\ ret' = [val |-> NilVal, err |-> StatusError(resp.StatusCode)]
            /\ pc' = "close"
       ELSE /\ ret' = ret
            /\ pc' = "read"
    /\ UNCHANGED <<metaVars, wayfVars, entry, data, resp, err, entity, entities, steps, bodyReads, closes, logged>>

\* data, err := io.ReadAll(resp.Body); then return f(data)
Fetch_ReadAll ==
    /\ pc = "read"
    /\ bodyReads' = bodyReads + 1
    /\ IF resp.readErr
       THEN /\ ret' = [val |-> NilVal, err |-> "unexpected EOF"]
            /\ pc' = "close"
            /\ data' = data
       ELSE /\ ret' = ret
            /\ pc' = "validate"
            /\ data' = resp.body
    /\ UNCHANGED <<metaVars, wayfVars, entry, resp, err, entity, entities, steps, closes, logged>>

\* defer func() { if err := resp.Body.Close(); err != nil { logger...Printf } }()
Fetch_DeferredClose ==
    /\ pc = "close"
    /\ closes' = closes + 1
    /\ logged' = IF resp.closeErr THEN logged + 1 ELSE logged
    /\ ret' = ResultAfterClose(ret, resp.closeErr)
    /\ pc' = "done"
    /\ UNCHANGED <<metaVars, wayfVars, entry, data, resp, err, entity, entities, steps, bodyReads>>

----------------------------------------------------------------------------
(* The parser and the fetcher as a state machine *)

\* No Metadata() call is in progress and no registry is configured.
MetaIdle ==
    /\ smp = [kind |-> "nil"]
    /\ heap = <<>>
    /\ now = 0
    /\ callers = {}
    /\ mpc = <<>>
    /\ certBytes = <<>>
    /\ idx = <<>>
    /\ out = <<>>
    /\ heapWrites = 0

\* No MakeWayfRedirectionRequest call is in progress.
WayfIdle ==
    /\ wpc = "idle"
    /\ relayState = <<>>
    /\ returnUrl = <<>>
    /\ u = [kind |-> "nil"]
    /\ wret = NoRet

Init ==
    /\ entry \in Entries
    /\ IF IsFetch(entry)
       THEN pc = "newreq" /\ data = NoData
       ELSE pc = "validate" /\ data \in Documents
    /\ resp = NoResp
    /\ err = NoErr
    /\ entity = NilVal
    /\ entities = NilVal
    /\ ret = NoRet
    /\ steps = <<>>
    /\ bodyReads = 0
    /\ closes = 0
    /\ logged = 0
    /\ MetaIdle
    /\ WayfIdle

Next ==
    \/ ParseMetadata_Validate
    \/ ParseMetadata_Unmarshal
    \/ ParseMetadata_Fallback
    \/ ParseMetadata_Return
    \/ ParseEntitiesMetadata_Validate
    \/ ParseEntitiesMetadata_Unmarshal
    \/ ParseEntitiesMetadata_Fallback
    \/ ParseEntitiesMetadata_Return
    \/ Fetch_NewRequest
    \/ Fetch_Do
    \/ Fetch_CheckStatus
    \/ Fetch_ReadAll
    \/ Fetch_DeferredClose

Spec == Init /\ [][Next]_vars

----------------------------------------------------------------------------
(* Properties of the parser *)

\* The parse operation has run on the document `data` and has returned.
ParseReturned == pc \in {"close", "done"} /\ data.kind = "document"

\* The indices of the entities of es that carry an IDP role descriptor.
WithIDP(es) == {i \in 1..Len(es) : Len(es[i].IDPSSODescriptors) > 0}

Least(S) == CHOOSE i \in S : \A j \in S : i <= j

\* C1 as stated: ParseMetadata on every well-formed document whose root is
\* an EntitiesDescriptor with entity list E returns E[i] for the least i such
\* that E[i] has a non-empty IDP role-descriptor list, and fails with
\* "no entity found with IDPSSODescriptor" exactly when no entity of E has
\* one.
C1_Original ==
    (/\ ParseReturned
     /\ Parser(entry) = "ParseMetadata"
     /\ data.wf
     /\ data.root = "EntitiesDescriptor")
    => LET E == data.ents IN
       /\ WithIDP(E) # {} => ret = [val |-> E[Least(WithIDP(E))], err |-> NoErr]
       /\ (ret.err = "no entity found with IDPSSODescriptor") <=> (WithIDP(E) = {})

\* C1 amended: ParseMetadata on a well-formed document whose root is an
\* EntitiesDescriptor with entity list E returns, when the document decodes
\* as an EntitiesDescriptor, E[i] for the least i such that E[i] has a
\* non-empty IDP role-descriptor list, and fails with
\* "no entity found with IDPSSODescriptor" exactly when no entity of E has
\* one; when the document does not decode, it fails with the decode error
\* and returns no entity.
C1_FirstIDPEntity ==
    (/\ ParseReturned
     /\ Parser(entry) = "ParseMetadata"
     /\ data.wf
     /\ data.root = "EntitiesDescriptor")
    => LET E == data.ents IN
       IF data.fault = "none"
       THEN /\ WithIDP(E) # {} => ret = [val |-> E[Least(WithIDP(E))], err |-> NoErr]
            /\ WithIDP(E) = {} => ret.val = NilVal
            /\ (ret.err = "no entity found with IDPSSODescriptor") <=> (WithIDP(E) = {})
       ELSE /\ ret.val = NilVal
            /\ ret.err # NoErr
            /\ ret.err # "no entity found with IDPSSODescriptor"
            /\ ret.err # "expected element type <EntityDescriptor> but have <EntitiesDescriptor>"

\* Witness of C1: entities [A (no IDP), B (IDP), C (IDP)], and B is returned.
C1_Witness ==
    /\ ParseReturned
    /\ entry = "ParseMetadata"
    /\ data.wf /\ data.root = "EntitiesDescriptor" /\ data.fault = "none"
    /\ Len(data.ents) = 3
    /\ WithIDP(data.ents) = {2, 3}
    /\ ret = [val |-> data.ents[2], err |-> NoErr]

\* C2 as stated: ParseEntitiesMetadata on every well-formed document whose
\* root is a single EntityDescriptor D succeeds and returns an
\* EntitiesDescriptor holding exactly D and nothing else from the document.
C2_Original ==
    (/\ ParseReturned
     /\ Parser(entry) = "ParseEntitiesMetadata"
     /\ data.wf
     /\ data.root = "EntityDescriptor")
    => ret = [val |-> [kind |-> "EntitiesDescriptor", Name |-> <<>>,
                       EntityDescriptors |-> <<data.ents[1]>>],
              err |-> NoErr]

\* C2 amended: ParseEntitiesMetadata on a well-formed document whose root is
\* a single EntityDescriptor D returns, when D decodes as an EntityDescriptor,
\* an EntitiesDescriptor whose entity list is exactly <<D>> and whose other
\* fields are zero; when D does not decode, it returns the decode error of D
\* and no document.
C2_WrapsSingleEntity ==
    (/\ ParseReturned
     /\ Parser(entry) = "ParseEntitiesMetadata"
     /\ data.wf
     /\ data.root = "EntityDescriptor")
    => IF data.fault = "none"
       THEN ret = [val |-> [kind |-> "EntitiesDescriptor", Name |-> <<>>,
                            EntityDescriptors |-> <<data.ents[1]>>],
                   err |-> NoErr]
       ELSE /\ ret.val = NilVal
            /\ ret.err # NoErr
            /\ ret.err # "expected element type <EntitiesDescriptor> but have <EntityDescriptor>"

\* Witness of C2: a standalone EntityDescriptor with an IDP descriptor came
\* back wrapped as a one-element list.
C2_Witness ==
    /\ ParseReturned
    /\ entry = "ParseEntitiesMetadata"
    /\ data.wf /\ data.root = "EntityDescriptor" /\ data.fault = "none"
    /\ Len(data.ents[1].IDPSSODescriptors) > 0
    /\ ret.err = NoErr
    /\ Len(ret.val.EntityDescriptors) = 1
    /\ ret.val.EntityDescriptors[1] = data.ents[1]

\* The root-mismatch error for the shape opposite to the one the parse
\* operation decodes first.
OppositeShapeError(parser) ==
    IF parser = "ParseMetadata"
    THEN "expected element type <EntityDescriptor> but have <EntitiesDescriptor>"
    ELSE "expected element type <EntitiesDescriptor> but have <EntityDescriptor>"

InSteps(x) == \E i \in 1..Len(steps) : steps[i] = x

\* C9: in both parse operations validation runs before any decode; when it
\* fails its error is returned and no decode is attempted; the fallback
\* decode runs only when the primary decode failed with the root mismatch
\* for exactly the opposite shape; every other primary decode error and
\* every fallback decode error is returned unchanged with no document.
C9_ValidateThenDecode ==
    /\ steps # <<>> => steps[1] = "validate"
    /\ (InSteps("primary") \/ InSteps("fallback")) => data.wf
    /\ InSteps("fallback") =>
          /\ InSteps("primary")
          /\ err = OppositeShapeError(Parser(entry))
    /\ ParseReturned =>
          /\ ~data.wf => /\ steps = <<"validate">>
                         /\ ret = [val |-> NilVal, err |-> Validate(data)]
          /\ data.wf =>
                /\ Len(steps) >= 2 /\ steps[2] = "primary"
                /\ err = OppositeShapeError(Parser(entry)) <=> InSteps("fallback")
                /\ (err # NoErr /\ err # OppositeShapeError(Parser(entry)))
                      => ret = [val |-> NilVal, err |-> err]
                /\ data.root = "Other"
                      => ret.err = "expected element type <" \o
                                   (IF Parser(entry) = "ParseMetadata"
                                    THEN "EntityDescriptor" ELSE "EntitiesDescriptor")
                                   \o "> but have <Other>"
                /\ (InSteps("fallback") /\ data.fault # "none")
                      => /\ ret.val = NilVal
                         /\ ret.err = UnmarshalErr(data, IF Parser(entry) = "ParseMetadata"
                                                         THEN "EntitiesDescriptor"
                                                         ELSE "EntityDescriptor")

\* Witness of C9: the primary decode failed with an error that is not the
\* opposite-shape mismatch, and that error came back without a fallback.
C9_Witness ==
    /\ ParseReturned
    /\ data.wf
    /\ data.root = "Other"
    /\ steps = <<"validate", "primary">>
    /\ ret = [val |-> NilVal, err |-> err]
    /\ err # NoErr

----------------------------------------------------------------------------
(* Properties of the fetcher *)

\* C3: once the status check has run on a response with status s >= 400 the
\* call's result is the error carrying s and no document, whatever the body
\* is; the body is never read and never parsed.  For s < 400 the status
\* check lets the call go on to read the body, and no status error is ever
\* returned.
C3_StatusCheck ==
    (resp.kind = "response" /\ pc # "status") =>
        IF resp.StatusCode >= 400
        THEN /\ pc \in {"close", "done"}
             /\ ret = [val |-> NilVal,
                       err |-> "failed to fetch metadata: unexpected status code "
                               \o ToString(resp.StatusCode)]
             /\ bodyReads = 0
             /\ steps = <<>>
             /\ data = NoData
        ELSE /\ pc = "read" \/ bodyReads = 1
             /\ \A s \in StatusCodes : ret.err # StatusError(s)

\* Witness of C3: a 404 whose body is a perfectly good metadata document.
C3_Witness ==
    /\ pc = "done"
    /\ resp.kind = "response"
    /\ resp.StatusCode = 404
    /\ resp.body.wf /\ resp.body.root = "EntityDescriptor" /\ resp.body.fault = "none"
    /\ ~resp.readErr
    /\ ret.err = "failed to fetch metadata: unexpected status code 404"

\* C4: whenever a response was obtained its body is closed exactly once
\* before fetchMetadata returns, on every exit path, never more than once and
\* never without a response; a failing Close is logged and leaves the result
\* of the call as it was.
C4_ClosedOnce ==
    /\ [](/\ closes <= 1
          /\ resp.kind # "response" => closes = 0
          /\ (pc = "done" /\ resp.kind = "response") => closes = 1
          /\ (pc # "done") => closes = 0
          /\ logged = (IF closes = 1 /\ resp.closeErr THEN 1 ELSE 0))
    /\ [][pc = "close" => (ret' = ret /\ pc' = "done" /\ closes' = 1)]_vars

\* Witness of C4: a successful fetch whose Close failed: the parsed document
\* is returned, the failure is logged.
C4_Witness ==
    /\ pc = "done"
    /\ resp.kind = "response"
    /\ resp.closeErr
    /\ closes = 1
    /\ logged = 1
    /\ ret.err = NoErr
    /\ ret.val.kind = "EntityDescriptor"

----------------------------------------------------------------------------
(* ServiceMultipleProvider.Metadata: configuration *)

MaxIntermediates == 2   \* most certificates in smp.Intermediates
MaxBindings == 2        \* most entries of smp.LogoutBindings

\* Binding identifiers of package saml.
HTTPPostBinding == "urn:oasis:names:tc:SAML:2.0:bindings:HTTP-POST"
HTTPRedirectBinding == "urn:oasis:names:tc:SAML:2.0:bindings:HTTP-Redirect"
HTTPArtifactBinding == "urn:oasis:names:tc:SAML:2.0:bindings:HTTP-Artifact"

\* saml.DefaultValidDuration, in hours.
DefaultValidDuration == 48

\* url.URL and its String() for a URL made of scheme, host and path.
MkURL(scheme, host, path) == [Scheme |-> scheme, Host |-> host, Path |-> path]
URLString(x) == x.Scheme \o "://" \o x.Host \o x.Path

\* The memory in which the certificates' DER bytes live.  The cells hold
\* pairwise distinct bytes, so that every move of a byte shows.
ArenaBytes == <<48, 130, 7, 255, 1>>

\* A []byte is a window on memory: first cell, length, capacity.
MkSlice(off, len, cap) == [off |-> off, len |-> len, cap |-> cap]

\* The bytes a slice shows in memory h.
SliceBytes(h, sl) == [i \in 1..sl.len |-> h[sl.off + i - 1]]

\* smp.Certificate.Raw: the leaf's bytes at the start of its allocation; what
\* follows them up to the capacity belongs to the same allocation (a buffer
\* that was decoded in place, or a DER chain parsed from one buffer).
LeafSlices ==
    {MkSlice(1, l, c) : l \in {1, 2}, c \in 1..Len(ArenaBytes)} \ {MkSlice(1, 2, 1)}

\* intermediate.Raw: one byte anywhere in memory, inside or outside of the
\* leaf's allocation.
IntermediateSlices == {MkSlice(o, 1, 1) : o \in 1..Len(ArenaBytes)}

IntermediateLists ==
    UNION {[1..n -> {[Raw |-> sl] : sl \in IntermediateSlices}] : n \in 0..MaxIntermediates}

\* smp.Certificate: nil, or a certificate.
Certificates == {NilVal} \cup {[kind |-> "Certificate", Raw |-> sl] : sl \in LeafSlices}

BindingLists ==
    UNION {[1..n -> {HTTPPostBinding, HTTPRedirectBinding}] : n \in 0..MaxBindings}

\* The leaf and the intermediates are different certificates: no
\* intermediate's bytes are the leaf's own bytes.  (They may well lie behind
\* them in the leaf's allocation.)
SeparateCertificates(c, is) ==
    c # NilVal => \A i \in 1..Len(is) : is[i].Raw.off > c.Raw.len

\* The configurations of a ServiceMultipleProvider.  Without a certificate
\* the intermediates are never looked at; one list stands for all.
Providers ==
    {[kind |-> "ServiceMultipleProvider",
      EntityID |-> id,
      MetadataURL |-> MkURL("https", "sp.example", "/saml/metadata"),
      AcsURL |-> MkURL("https", "sp.example", "/saml/acs"),
      SloURL |-> MkURL("https", "sp.example", "/saml/slo"),
      Certificate |-> c,
      Intermediates |-> is,
      SignatureMethod |-> sm,
      LogoutBindings |-> lb,
      MetadataValidDuration |-> vd,
      AuthnNameIDFormat |-> "urn:oasis:names:tc:SAML:2.0:nameid-format:transient"] :
        id \in {"", "urn:sp"},
        c \in Certificates,
        is \in IntermediateLists,
        sm \in {"", "http://www.w3.org/2001/04/xmldsig-more#rsa-sha256"},
        lb \in BindingLists,
        vd \in {0, 24}}

----------------------------------------------------------------------------
(* ServiceMultipleProvider.Metadata: helpers *)

\* base64.StdEncoding
B64Alphabet ==
    <<
    "A", "B", "C", "D", "E", "F", "G", "H", "I", "J", "K", "L", "M", "N", "O", "P",
    "Q", "R", "S", "T", "U", "V", "W", "X", "Y", "Z", "a", "b", "c", "d", "e", "f",
    "g", "h", "i", "j", "k", "l", "m", "n", "o", "p", "q", "r", "s", "t", "u", "v",
    "w", "x", "y", "z", "0", "1", "2", "3", "4", "5", "6", "7", "8", "9", "+", "/"
    >>

Sextet(n) == B64Alphabet[n + 1]

\* base64.StdEncoding.EncodeToString(b), b a sequence of bytes
RECURSIVE EncodeToString(_)
EncodeToString(b) ==
    IF Len(b) = 0 THEN ""
    ELSE IF Len(b) = 1
         THEN Sextet(b[1] \div 4) \o Sextet((b[1] % 4) * 16) \o "=="
    ELSE IF Len(b) = 2
         THEN Sextet(b[1] \div 4) \o Sextet((b[1] % 4) * 16 + b[2] \div 16)
              \o Sextet((b[2] % 16) * 4) \o "="
    ELSE Sextet(b[1] \div 4) \o Sextet((b[1] % 4) * 16 + b[2] \div 16)
         \o Sextet((b[2] % 16) * 4 + b[3] \div 64) \o Sextet(b[3] % 64)
         \o EncodeToString(SubSeq(b, 4, Len(b)))

\* firstSet(a, b) of package saml
firstSet(a, b) == IF a # "" THEN a ELSE b

\* validDuration := DefaultValidDuration; if smp.MetadataValidDuration > 0 {...}
ValidDuration(s) ==
    IF s.MetadataValidDuration > 0 THEN s.MetadataValidDuration ELSE DefaultValidDuration

\* The local slice certBytes: a window on the shared memory (the leaf's
\* allocation), or, once append has reallocated, an array of the caller's own.
SharedBytes(sl) == [shared |-> TRUE, sl |-> sl, bytes |-> <<>>]
OwnBytes(b) == [shared |-> FALSE, sl |-> MkSlice(0, 0, 0), bytes |-> b]
NoBytes == [shared |-> FALSE, sl |-> MkSlice(0, 0, 0), bytes |-> <<>>]

\* The bytes certBytes shows in memory h.
BytesOf(h, cb) == IF cb.shared THEN SliceBytes(h, cb.sl) ELSE cb.bytes

\* append(certBytes, src...) stores in place when the capacity suffices.
AppendFits(cb, n) == cb.shared /\ cb.sl.len + n <= cb.sl.cap

\* Memory h after src is stored behind the len cells of slice sl.
StoreBehind(h, sl, src) ==
    [i \in 1..Len(h) |->
        IF i >= sl.off + sl.len /\ i < sl.off + sl.len + Len(src)
        THEN src[i - (sl.off + sl.len) + 1]
        ELSE h[i]]

\* The key descriptors built from the encoded certificate blob.
EncryptionKeyDescriptor(blob) ==
    [Use |-> "encryption",
     X509Certificates |-> <<blob>>,
     EncryptionMethods |-> <<"http://www.w3.org/2001/04/xmlenc#aes128-cbc",
                             "http://www.w3.org/2001/04/xmlenc#aes192-cbc",
                             "http://www.w3.org/2001/04/xmlenc#aes256-cbc",
                             "http://www.w3.org/2001/04/xmlenc#rsa-oaep-mgf1p">>]

SigningKeyDescriptor(blob) ==
    [Use |-> "signing", X509Certificates |-> <<blob>>, EncryptionMethods |-> <<>>]

KeyDescriptors(s, blob) ==
    IF s.Certificate = NilVal THEN <<>>
    ELSE <<EncryptionKeyDescriptor(blob)>>
         \o (IF s.SignatureMethod # "" THEN <<SigningKeyDescriptor(blob)>> ELSE <<>>)

\* Mutant of SloEndpoints: the endpoints are filled from the last binding
\* to the first.
SloEndpoints_Reversed(s) ==
    [i \in 1..Len(s.LogoutBindings) |->
        [Binding |-> s.LogoutBindings[Len(s.LogoutBindings) + 1 - i],
         Location |-> URLString(s.SloURL),
         ResponseLocation |-> URLString(s.SloURL)]]

\* sloEndpoints := make([]Endpoint, len(smp.LogoutBindings)); for i, binding := range ...
SloEndpoints(s) ==
    [i \in 1..Len(s.LogoutBindings) |->
        [Binding |-> s.LogoutBindings[i],
         Location |-> URLString(s.SloURL),
         ResponseLocation |-> URLString(s.SloURL)]]

AssertionConsumerServices(s) ==
    <<[Binding |-> HTTPPostBinding, Location |-> URLString(s.AcsURL), Index |-> 1],
      [Binding |-> HTTPArtifactBinding, Location |-> URLString(s.AcsURL), Index |-> 2]>>

\* return &EntityDescriptor{...}
Descriptor(s, validUntil, blob) ==
    [kind |-> "EntityDescriptor",
     EntityID |-> firstSet(s.EntityID, URLString(s.MetadataURL)),
     ValidUntil |-> validUntil,
     SPSSODescriptors |->
        <<[ProtocolSupportEnumeration |-> "urn:oasis:names:tc:SAML:2.0:protocol",
           KeyDescriptors |-> KeyDescriptors(s, blob),
           ValidUntil |-> validUntil,
           SingleLogoutServices |-> SloEndpoints(s),
           NameIDFormats |-> <<s.AuthnNameIDFormat>>,
           AuthnRequestsSigned |-> (s.SignatureMethod # ""),
           WantAssertionsSigned |-> TRUE,
           AssertionConsumerServices |-> AssertionConsumerServices(s)]>>]

----------------------------------------------------------------------------
(* ServiceMultipleProvider.Metadata: the call, step by step *)

\* Lines 247-258: the scalars are read, and certBytes := smp.Certificate.Raw
\* copies the slice header, not the bytes.
Metadata_Begin(p) ==
    /\ mpc[p] = "begin"
    /\ certBytes' = [certBytes EXCEPT ![p] =
                        IF smp.Certificate = NilVal THEN NoBytes
                        ELSE SharedBytes(smp.Certificate.Raw)]
    /\ idx' = [idx EXCEPT ![p] = 1]
    /\ mpc' = [mpc EXCEPT ![p] =
                  IF smp.Certificate # NilVal /\ Len(smp.Intermediates) > 0
                  THEN "append" ELSE "compose"]
    /\ UNCHANGED <<fetchVars, wayfVars, smp, heap, now, callers, out, heapWrites>>

\* Lines 259-261: certBytes = append(certBytes, intermediate.Raw...)
Metadata_Append(p) ==
    /\ mpc[p] = "append"
    /\ LET cb == certBytes[p]
           src == SliceBytes(heap, smp.Intermediates[idx[p]].Raw)
       IN IF AppendFits(cb, Len(src))
          THEN /\ heap' = StoreBehind(heap, cb.sl, src)
               /\ heapWrites' = heapWrites + 1
               /\ certBytes' = [certBytes EXCEPT ![p] =
                                   SharedBytes(MkSlice(cb.sl.off, cb.sl.len + Len(src), cb.sl.cap))]
          ELSE /\ heap' = heap
               /\ heapWrites' = heapWrites
               /\ certBytes' = [certBytes EXCEPT ![p] = OwnBytes(BytesOf(heap, cb) \o src)]
    /\ idx' = [idx EXCEPT ![p] = idx[p] + 1]
    /\ mpc' = [mpc EXCEPT ![p] =
                  IF idx[p] + 1 > Len(smp.Intermediates) THEN "compose" ELSE "append"]
    /\ UNCHANGED <<fetchVars, wayfVars, smp, now, callers, out>>

\* Lines 262-335: the blob is encoded from what certBytes shows now, the
\* endpoints are built and the descriptor is returned.
Metadata_Compose(p) ==
    /\ mpc[p] = "compose"
    /\ out' = [out EXCEPT ![p] =
                  Descriptor(smp, now + ValidDuration(smp),
                             EncodeToString(BytesOf(heap, certBytes[p])))]
    /\ mpc' = [mpc EXCEPT ![p] = "done"]
    /\ UNCHANGED <<fetchVars, wayfVars, smp, heap, now, callers, certBytes, idx, heapWrites>>

\* No parse or fetch call is in progress.
FetchIdle ==
    /\ entry = "none"
    /\ pc = "idle"
    /\ data = NoData
    /\ resp = NoResp
    /\ err = NoErr
    /\ entity = NilVal
    /\ entities = NilVal
    /\ ret = NoRet
    /\ steps = <<>>
    /\ bodyReads = 0
    /\ closes = 0
    /\ logged = 0

MetaStart(cs) ==
    /\ WayfIdle
    /\ heap = ArenaBytes
    /\ now = 1000
    /\ callers = cs
    /\ mpc = [p \in cs |-> "begin"]
    /\ certBytes = [p \in cs |-> NoBytes]
    /\ idx = [p \in cs |-> 0]
    /\ out = [p \in cs |-> NilVal]
    /\ heapWrites = 0

\* One goroutine calls Metadata() on any configuration.
InitMeta ==
    /\ FetchIdle
    /\ smp \in Providers
    /\ smp.Certificate = NilVal => smp.Intermediates = <<>>
    /\ SeparateCertificates(smp.Certificate, smp.Intermediates)
    /\ MetaStart({1})

\* Two goroutines call Metadata() on the same configuration.
InitMetaConcurrent ==
    /\ FetchIdle
    /\ smp \in Providers
    /\ smp.Certificate # NilVal
    /\ SeparateCertificates(smp.Certificate, smp.Intermediates)
    /\ smp.EntityID = "urn:sp"
    /\ smp.MetadataValidDuration = 0
    /\ smp.LogoutBindings = <<HTTPPostBinding>>
    /\ smp.SignatureMethod # ""
    /\ MetaStart({1, 2})

NextMeta ==
    \/ \E p \in callers : Metadata_Begin(p)
    \/ \E p \in callers : Metadata_Append(p)
    \/ \E p \in callers : Metadata_Compose(p)

SpecMeta == InitMeta /\ [][NextMeta]_vars

SpecMetaConcurrent == InitMetaConcurrent /\ [][NextMeta]_vars

----------------------------------------------------------------------------
(* Properties of ServiceMultipleProvider.Metadata *)

\* The SPSSODescriptor of the document caller p got back.
SPDescriptor(p) == out[p].SPSSODescriptors[1]

ConfiguredChain ==
    LET RECURSIVE Chain(_)
        Chain(i) == IF i > Len(smp.Intermediates) THEN <<>>
                    ELSE SliceBytes(ArenaBytes, smp.Intermediates[i].Raw) \o Chain(i + 1)
    IN SliceBytes(ArenaBytes, smp.Certificate.Raw) \o Chain(1)

\* C6: without a certificate the key-descriptor list is empty; with one and
\* an empty signature method it is one "encryption" descriptor; with one and
\* a signature method it is "encryption" then "signing".  Each descriptor
\* carries one blob, the base64 of the leaf's bytes followed by the
\* intermediates' bytes in configured order, the same in both.
C6_KeyDescriptors ==
    \A p \in callers :
        mpc[p] = "done" =>
            LET kd == SPDescriptor(p).KeyDescriptors IN
            IF smp.Certificate = NilVal THEN kd = <<>>
            ELSE /\ Len(kd) = (IF smp.SignatureMethod = "" THEN 1 ELSE 2)
                 /\ kd[1].Use = "encryption"
                 /\ Len(kd) = 2 => kd[2].Use = "signing"
                 /\ \A i \in 1..Len(kd) :
                       kd[i].X509Certificates = <<EncodeToString(ConfiguredChain)>>

\* C8: with no logout binding configured, the composed document publishes
\* one logout endpoint, bound to HTTP-POST at the single-logout URL.
C8_DefaultLogoutBinding ==
    \A p \in callers :
        (mpc[p] = "done" /\ smp.LogoutBindings = <<>>) =>
            SPDescriptor(p).SingleLogoutServices =
                <<[Binding |-> "urn:oasis:names:tc:SAML:2.0:bindings:HTTP-POST",
                   Location |-> "https://sp.example/saml/slo",
                   ResponseLocation |-> "https://sp.example/saml/slo"]>>

\* C10: Metadata() stores nothing into the shared configuration, the
\* memory of the leaf certificate's bytes included, and two concurrent calls
\* return the same document.
C10_NoSharedWrite ==
    /\ heapWrites = 0
    /\ heap = ArenaBytes
    /\ \A p, q \in callers : (mpc[p] = "done" /\ mpc[q] = "done") => out[p] = out[q]

----------------------------------------------------------------------------
(* Strings and package net/url, for MakeWayfRedirectionRequest *)

\* A Go string is a sequence of one-character strings here, so that parsing
\* can look at it; Str gives it back as one string.
RECURSIVE Str(_)
Str(cs) == IF cs = <<>> THEN "" ELSE cs[1] \o Str(Tail(cs))

Letters ==
    {
     "a", "b", "c", "d", "e", "f", "g", "h", "i", "j", "k", "l", "m",
     "n", "o", "p", "q", "r", "s", "t", "u", "v", "w", "x", "y", "z",
     "A", "B", "C", "D", "E", "F", "G", "H", "I", "J", "K", "L", "M",
     "N", "O", "P", "Q", "R", "S", "T", "U", "V", "W", "X", "Y", "Z"
    }

Digits == {"0", "1", "2", "3", "4", "5", "6", "7", "8", "9"}

\* The characters of the model in byte order.
ByteOrder ==
    <<
     "\n", " ", "%", "&", "+", "-", ".", "/", "0", "1", "2", "3", "4",
     "5", "6", "7", "8", "9", ":", "=", "?", "A", "B", "C", "D", "E",
     "F", "G", "H", "I", "J", "K", "L", "M", "N", "O", "P", "Q", "R",
     "S", "T", "U", "V", "W", "X", "Y", "Z", "_", "a", "b", "c", "d",
     "e", "f", "g", "h", "i", "j", "k", "l", "m", "n", "o", "p", "q",
     "r", "s", "t", "u", "v", "w", "x", "y", "z", "~"
    >>

Rank(c) == CHOOSE i \in 1..Len(ByteOrder) : ByteOrder[i] = c

\* a < b as Go compares strings
RECURSIVE StrLess(_, _)
StrLess(a, b) ==
    IF b = <<>> THEN FALSE
    ELSE IF a = <<>> THEN TRUE
    ELSE IF a[1] # b[1] THEN Rank(a[1]) < Rank(b[1])
    ELSE StrLess(Tail(a), Tail(b))

\* strings.IndexByte(cs, c) + 1: the first position of c in cs, 0 if none
RECURSIVE IndexFrom(_, _, _)
IndexFrom(cs, c, i) ==
    IF i > Len(cs) THEN 0 ELSE IF cs[i] = c THEN i ELSE IndexFrom(cs, c, i + 1)

IndexOf(cs, c) == IndexFrom(cs, c, 1)

HasPrefix(cs, pre) == Len(cs) >= Len(pre) /\ SubSeq(cs, 1, Len(pre)) = pre

\* strings.Split(cs, sep) for a one-character separator
RECURSIVE Split(_, _)
Split(cs, sep) ==
    LET i == IndexOf(cs, sep) IN
    IF i = 0 THEN <<cs>>
    ELSE <<SubSeq(cs, 1, i - 1)>> \o Split(SubSeq(cs, i + 1, Len(cs)), sep)

\* stringContainsCTLByte: a byte below ' ' (or 0x7f)
HasCTL(cs) == \E i \in 1..Len(cs) : Rank(cs[i]) < Rank(" ")

\* getScheme(rawURL)
RECURSIVE SchemeFrom(_, _)
SchemeFrom(cs, i) ==
    IF i > Len(cs) THEN [err |-> NoErr, scheme |-> <<>>, rest |-> cs]
    ELSE IF cs[i] \in Letters THEN SchemeFrom(cs, i + 1)
    ELSE IF cs[i] \in Digits \cup {"+", "-", "."}
         THEN IF i = 1 THEN [err |-> NoErr, scheme |-> <<>>, rest |-> cs]
              ELSE SchemeFrom(cs, i + 1)
    ELSE IF cs[i] = ":"
         THEN IF i = 1 THEN [err |-> "missing protocol scheme", scheme |-> <<>>, rest |-> <<>>]
              ELSE [err |-> NoErr, scheme |-> SubSeq(cs, 1, i - 1),
                    rest |-> SubSeq(cs, i + 1, Len(cs))]
    ELSE [err |-> NoErr, scheme |-> <<>>, rest |-> cs]

GetScheme(cs) == SchemeFrom(cs, 1)

\* The error of url.Parse, wrapped as *url.Error prints it.
ParseError(raw, msg) ==
    [err |-> "parse \"" \o Str(raw) \o "\": " \o msg,
     Scheme |-> <<>>, Rest |-> <<>>, RawQuery |-> <<>>]

\* url.Parse(raw) for URLs without fragment, user info, port and escapes:
\* Scheme, the part between scheme and query as written (opaque, or
\* //host/path), and RawQuery.
UrlParse(raw) ==
    IF HasCTL(raw) THEN ParseError(raw, "net/url: invalid control character in URL")
    ELSE LET sch == GetScheme(raw) IN
    IF sch.err # NoErr THEN ParseError(raw, sch.err)
    ELSE LET q == IndexOf(sch.rest, "?")
             rest == IF q = 0 THEN sch.rest ELSE SubSeq(sch.rest, 1, q - 1)
             rawq == IF q = 0 THEN <<>> ELSE SubSeq(sch.rest, q + 1, Len(sch.rest))
             ok == [err |-> NoErr, Scheme |-> sch.scheme, Rest |-> rest, RawQuery |-> rawq]
         IN
         IF ~HasPrefix(rest, <<"/">>)
         THEN IF sch.scheme # <<>> THEN ok
              ELSE IF IndexOf(Split(rest, "/")[1], ":") > 0
                   THEN ParseError(raw, "first path segment in URL cannot contain colon")
                   ELSE ok
         ELSE IF HasPrefix(rest, <<"/", "/">>) /\ (sch.scheme # <<>> \/ ~HasPrefix(rest, <<"/", "/", "/">>))
              THEN LET host == Split(SubSeq(rest, 3, Len(rest)), "/")[1] IN
                   IF IndexOf(host, " ") > 0
                   THEN ParseError(raw, "invalid character \" \" in host name")
                   ELSE ok
              ELSE ok

\* (*URL).String() of a URL as parsed above
UrlString(x) ==
    (IF x.Scheme # <<>> THEN x.Scheme \o <<":">> ELSE <<>>)
    \o x.Rest
    \o (IF x.RawQuery # <<>> THEN <<"?">> \o x.RawQuery ELSE <<>>)

\* url.QueryEscape of one character
EscapeChar(c) ==
    CASE
         c = "\n" -> <<"%", "0", "A">> []
         c = " " -> <<"+">> []
         c = "%" -> <<"%", "2", "5">> []
         c = "&" -> <<"%", "2", "6">> []
         c = "+" -> <<"%", "2", "B">> []
         c = "/" -> <<"%", "2", "F">> []
         c = ":" -> <<"%", "3", "A">> []
         c = "=" -> <<"%", "3", "D">> []
         c = "?" -> <<"%", "3", "F">> []
         OTHER -> <<c>>

\* url.QueryEscape(cs)
RECURSIVE QueryEscape(_)
QueryEscape(cs) == IF cs = <<>> THEN <<>> ELSE EscapeChar(cs[1]) \o QueryEscape(Tail(cs))

\* url.QueryUnescape for text without '%': '+' is a space
QueryUnescape(cs) == [i \in 1..Len(cs) |-> IF cs[i] = "+" THEN " " ELSE cs[i]]

\* (*URL).Query(): the key/value pairs of RawQuery, in order; empty
\* segments are skipped.
RECURSIVE PairsOf(_)
PairsOf(segs) ==
    IF segs = <<>> THEN <<>>
    ELSE LET seg == segs[1]
             e == IndexOf(seg, "=")
             k == IF e = 0 THEN seg ELSE SubSeq(seg, 1, e - 1)
             v == IF e = 0 THEN <<>> ELSE SubSeq(seg, e + 1, Len(seg))
         IN (IF seg = <<>> THEN <<>> ELSE <<[key |-> QueryUnescape(k), value |-> QueryUnescape(v)]>>)
            \o PairsOf(Tail(segs))

Query(x) == PairsOf(Split(x.RawQuery, "&"))

\* Values.Add(key, value)
Add(pairs, k, v) == Append(pairs, [key |-> k, value |-> v])

\* Values.Encode(): sorted by key, the values of one key in insertion order
RECURSIVE InsertSorted(_, _)
InsertSorted(sorted, x) ==
    IF sorted = <<>> THEN <<x>>
    ELSE IF StrLess(x.key, sorted[1].key) THEN <<x>> \o sorted
    ELSE <<sorted[1]>> \o InsertSorted(Tail(sorted), x)

RECURSIVE SortByKey(_)
SortByKey(pairs) ==
    IF pairs = <<>> THEN <<>>
    ELSE InsertSorted(SortByKey(SubSeq(pairs, 1, Len(pairs) - 1)), pairs[Len(pairs)])

RECURSIVE EncodeSorted(_)
EncodeSorted(pairs) ==
    IF pairs = <<>> THEN <<>>
    ELSE QueryEscape(pairs[1].key) \o <<"=">> \o QueryEscape(pairs[1].value)
         \o (IF Len(pairs) > 1 THEN <<"&">> \o EncodeSorted(Tail(pairs)) ELSE <<>>)

Encode(pairs) == EncodeSorted(SortByKey(pairs))

----------------------------------------------------------------------------
(* ServiceMultipleProvider.MakeWayfRedirectionRequest *)

ReturnUrls ==
    {<<"h", "t", "t", "p", "s", ":", "/", "/", "s", "p", ".", "e", "x", "a", "m", "p", "l", "e", "/", "c", "b">>,
     <<"h", "t", "t", "p", "s", ":", "/", "/", "s", "p", ".", "e", "x", "a", "m", "p", "l", "e", "/", "c", "b", "?", "a", "=", "b">>,
     <<"/", "c", "b">>,
     <<>>,
     <<":", "c", "b">>,
     <<"h", "t", "t", "p", "s", ":", "/", "/", "s", "p", ".", "e", "x", "a", "m", "p", "l", "e", "/", "c", "b", "\n">>,
     <<"1", ":", "c", "b">>,
     <<"h", "t", "t", "p", "s", ":", "/", "/", "s", "p", " ", "e", "x", "a", "m", "p", "l", "e", "/", "c", "b">>}

RelayStates ==
    {<<>>,
     <<"a", "b", "c">>,
     <<"a", " ", "b", "&", "c">>}

\* smp.IDPMetadata: nil, or an EntitiesDescriptor whose Name is nil or set.
IDPMetadatas ==
    {NilVal, [kind |-> "EntitiesDescriptor", Name |-> <<>>]}
    \cup {[kind |-> "EntitiesDescriptor", Name |-> <<nm>>] :
            nm \in {<<"h", "t", "t", "p", "s", ":", "/", "/", "i", "d", "p", ".", "e", "x", "a", "m", "p", "l", "e", "/", "w", "a", "y", "f">>,
                    <<"h", "t", "t", "p", "s", ":", "/", "/", "i", "d", "p", ".", "e", "x", "a", "m", "p", "l", "e", "/", "w", "a", "y", "f", "?", "z", "=", "1">>,
                    <<":", "w", "a", "y", "f">>}}

\* The fields of smp the call reads.
WayfProviders ==
    {[kind |-> "ServiceMultipleProvider", EntityID |-> id, IDPMetadata |-> m] :
        id \in {<<>>, <<"u", "r", "n", ":", "s", "p">>}, m \in IDPMetadatas}

\* Mutant of WayfUrl: an unset Name falls back to a default discovery URL.
WayfUrl_Defaulted(s) ==
    IF s.IDPMetadata.Name = <<>> THEN <<<<"h", "t", "t", "p", "s", ":", "/", "/", "i", "d", "p", ".", "e", "x", "a", "m", "p", "l", "e", "/", "w", "a", "y", "f">>>> ELSE s.IDPMetadata.Name

\* wayfUrl := smp.IDPMetadata.Name
WayfUrl(s) == s.IDPMetadata.Name

\* Lines 218-225: the return URL is parsed and rs is added to its query.
Wayf_ParseReturn ==
    /\ wpc = "parseReturn"
    /\ LET parsed == UrlParse(returnUrl) IN
       IF parsed.err # NoErr
       THEN /\ wret' = [val |-> NilVal, err |-> parsed.err]
            /\ wpc' = "done"
            /\ u' = u
       ELSE /\ u' = [parsed EXCEPT !.RawQuery = Encode(Add(Query(parsed), <<"r", "s">>, relayState))]
            /\ wpc' = "readName"
            /\ wret' = wret
    /\ UNCHANGED <<fetchVars, metaVars, relayState, returnUrl>>

\* Lines 227-231: smp.IDPMetadata.Name is read (a nil IDPMetadata panics)
\* and must be set.
Wayf_ReadName ==
    /\ wpc = "readName"
    /\ IF smp.IDPMetadata = NilVal
       THEN /\ wpc' = "panicked"
            /\ wret' = wret
       ELSE IF WayfUrl(smp) = <<>>
       THEN /\ wret' = [val |-> NilVal, err |-> "identity name is not set"]
            /\ wpc' = "done"
       ELSE /\ wpc' = "build"
            /\ wret' = wret
    /\ UNCHANGED <<fetchVars, metaVars, relayState, returnUrl, u>>

\* Lines 233-243: the discovery URL is parsed, return and entityID are added
\* to its query and it is returned.
Wayf_Build ==
    /\ wpc = "build"
    /\ LET wu == UrlParse(WayfUrl(smp)[1]) IN
       IF wu.err # NoErr
       THEN wret' = [val |-> NilVal, err |-> wu.err]
       ELSE wret' = [val |-> [kind |-> "URL",
                              String |-> Str(UrlString(
                                  [wu EXCEPT !.RawQuery =
                                      Encode(Add(Add(Query(wu), <<"r", "e", "t", "u", "r", "n">>, UrlString(u)),
                                                 <<"e", "n", "t", "i", "t", "y", "I", "D">>, smp.EntityID))]))],
                     err |-> NoErr]
    /\ wpc' = "done"
    /\ UNCHANGED <<fetchVars, metaVars, relayState, returnUrl, u>>

InitWayf ==
    /\ FetchIdle
    /\ smp \in WayfProviders
    /\ heap = <<>>
    /\ now = 0
    /\ callers = {}
    /\ mpc = <<>>
    /\ certBytes = <<>>
    /\ idx = <<>>
    /\ out = <<>>
    /\ heapWrites = 0
    /\ wpc = "parseReturn"
    /\ relayState \in RelayStates
    /\ returnUrl \in ReturnUrls
    /\ u = [kind |-> "nil"]
    /\ wret = NoRet

NextWayf ==
    \/ Wayf_ParseReturn
    \/ Wayf_ReadName
    \/ Wayf_Build

SpecWayf == InitWayf /\ [][NextWayf]_vars

----------------------------------------------------------------------------
(* Properties of MakeWayfRedirectionRequest *)

\* The call has returned and the IDP metadata is configured without a Name.
ReturnedWithoutName ==
    /\ wpc = "done"
    /\ smp.IDPMetadata # NilVal
    /\ smp.IDPMetadata.Name = <<>>

\* C7 as stated: with no Name in the configured IDP metadata the call fails
\* with "identity name is not set" and returns no URL, for every relay
\* state and every return URL.
C7_Original ==
    ReturnedWithoutName => wret = [val |-> NilVal, err |-> "identity name is not set"]

\* C7 amended: with no Name in the configured IDP metadata the call returns
\* no URL, for every relay state and every return URL; it fails with
\* "identity name is not set" when url.Parse accepts the return URL, and
\* with the error of url.Parse when it does not.
C7_NameNotSet ==
    ReturnedWithoutName =>
        /\ wret.val = NilVal
        /\ wret.err = (IF UrlParse(returnUrl).err = NoErr
                       THEN "identity name is not set"
                       ELSE UrlParse(returnUrl).err)
        /\ wret.err # NoErr

\* Witness of C7: a good return URL, a relay state, no Name: ConfigError.
C7_Witness ==
    /\ ReturnedWithoutName
    /\ returnUrl = <<"h", "t", "t", "p", "s", ":", "/", "/", "s", "p", ".", "e", "x", "a", "m", "p", "l", "e", "/", "c", "b">>
    /\ relayState = <<"a", "b", "c">>
    /\ wret = [val |-> NilVal, err |-> "identity name is not set"]

====
